---- MODULE Spec2Model ----
(***************************************************************************)
(* HAUS voice agent worker (packages/backend/agent-worker/agent.py).       *)
(*                                                                         *)
(* One call (one run of the rtc_session entry point haus_agent) with its   *)
(* ConvexClient, its HausAgent and the handlers the hosted pipeline calls  *)
(* on that agent: on_user_turn_completed, search_properties,               *)
(* remember_preference, get_property_details.                              *)
(*                                                                         *)
(* Strings the program builds with f-strings are sequences of string       *)
(* tokens, one token per literal piece and one per interpolated value, so  *)
(* that "the message contains the price" is a statement about tokens.      *)
(***************************************************************************)
EXTENDS Integers, Sequences, FiniteSets, TLC

VARIABLES
    metadata,         \* ctx.job.metadata, the raw JSON text of the job
    room,             \* ctx.room.name
    pc,               \* position of haus_agent
    raising,          \* haus_agent is unwinding with an exception
    user_id,          \* the local user_id of haus_agent / HausAgent.user_id
    memory_space_id,  \* the local memory_space_id of haus_agent
    closeCount,       \* number of times ConvexClient.close ran
    live,             \* the hosted call: "none", "live" (agent attached), "ended"
    handler,          \* the agent handler last entered
    hstate,           \* "idle", "running", "returned", "raised"
    args,             \* the arguments of that handler
    results,          \* search_properties: the local results
    widx,             \* search_properties: number of loop iterations done
    calls,            \* Memory Client calls made by that handler, in order
    ret,              \* the string that handler returned (tokens)
    context,          \* on_user_turn_completed: the local context
    turn_ctx,         \* on_user_turn_completed: messages added to turn_ctx
    stored            \* records the remote memory service has persisted

vars == <<metadata, room, pc, raising, user_id, memory_space_id, closeCount,
          live, handler, hstate, args, results, widx, calls, ret, context,
          turn_ctx, stored>>

bootVars == <<pc, raising, user_id, memory_space_id, closeCount>>
handlerVars == <<handler, hstate, args, results, widx, calls, ret, context,
                 turn_ctx>>

----------------------------------------------------------------------------
(* Bounds of the model *)

MaxPrefs == 6          \* suburb preferences the service may return
MaxFacts == 6          \* facts the service may return
MaxInteractions == 4   \* property interactions the service may return
MaxStored == 2         \* records the remote service accepts in one call

(* Program constants *)

TopSuburbs == 5
TopFacts == 5
TopInteractions == 3
PositiveConfidence == 80
NegativeConfidence == 70
FallbackPriceFirst == 1500000
FallbackPriceSecond == 1000000
SecondDiscount == 200000

NoneStr == "<None>"    \* Python None where a str is expected

----------------------------------------------------------------------------
(* Python helpers *)

\* An int | None argument is <<>> (None) or <<v>>.
\* `x or d` on it: d when x is None or 0.
PyOr(x, d) == IF x = <<>> \/ x[1] = 0 THEN d ELSE x[1]

\* seq[:n]
Take(seq, n) == SubSeq(seq, 1, IF Len(seq) < n THEN Len(seq) ELSE n)

Pad3(n) ==
    IF n < 10 THEN "00" \o ToString(n)
    ELSE IF n < 100 THEN "0" \o ToString(n)
    ELSE ToString(n)

RECURSIVE GroupDigits(_)
GroupDigits(n) ==
    IF n < 1000 THEN ToString(n)
    ELSE GroupDigits(n \div 1000) \o "," \o Pad3(n % 1000)

\* format(n, ",")
FormatThousands(n) == IF n < 0 THEN "-" \o GroupDigits(-n) ELSE GroupDigits(n)

RECURSIVE JoinTokens(_, _)
\* sep.join(parts), each part a token sequence
JoinTokens(parts, sep) ==
    IF Len(parts) = 0 THEN <<>>
    ELSE IF Len(parts) = 1 THEN parts[1]
    ELSE parts[1] \o <<sep>> \o JoinTokens(Tail(parts), sep)

----------------------------------------------------------------------------
(* The HTTP exchange of one Memory Client call *)

\* What one `await self.http_client.post(...)` plus raise_for_status() and
\* response.json() can come to:
\*   closed        the AsyncClient was closed: post raises RuntimeError
\*   timeout       no answer within the 30 s timeout: httpx.TimeoutException
\*   connect_error transport failure: httpx.ConnectError
\*   http_500      non-2xx status: raise_for_status raises HTTPStatusError
\*   bad_json      2xx, body is not JSON: response.json() raises
\*   json_list     2xx, body is JSON but not an object (a list)
\*   json_dict     2xx, body is a JSON object, `body`
FailureKinds == {"timeout", "connect_error", "http_500", "bad_json", "json_list"}

Failures == {[kind |-> k] : k \in FailureKinds}

EmptyDict == [k \in {} |-> NoneStr]

Dict(body) == [kind |-> "json_dict", body |-> body]

Suburb(k) == [suburbName |-> "Suburb" \o ToString(k),
              preferenceScore |-> (k * 37) % 101]

Fact(k) == [fact |-> "fact" \o ToString(k), confidence |-> (k * 29) % 101]

Interaction(k) == [propertyId |-> "prop-00" \o ToString(k),
                   interactionType |-> IF k % 2 = 0 THEN "viewed" ELSE "search"]

\* The service's own ranking: n distinct entries, in an order that is sorted
\* neither by name nor by score.
Rank(i) == ((i - 1) * 3 + 2) % 8

RecallBody(nS, nF, nI) ==
    [memories |-> <<>>,
     facts |-> [i \in 1..nF |-> Fact(Rank(i))],
     propertyInteractions |-> [i \in 1..nI |-> Interaction(Rank(i))],
     suburbPreferences |-> [i \in 1..nS |-> Suburb(Rank(i))]]

RecallBodies ==
    {RecallBody(nS, nF, 0) : nS \in 0..MaxPrefs, nF \in 0..MaxFacts}
    \cup {RecallBody(1, 1, nI) : nI \in 0..MaxInteractions}
    \cup {EmptyDict,
          [facts |-> <<Fact(1), Fact(0)>>],
          [suburbPreferences |-> <<Suburb(1), Suburb(0)>>, memories |-> <<>>]}

\* The answers the service can give to each endpoint while the client is open.
\* The service persists a record only while it has room (stored < MaxStored).
Answers(op, room_left) ==
    Failures \cup
    CASE op = "ensure_memory_space" ->
            {Dict([memorySpaceId |-> "ms-1"]), Dict(EmptyDict)}
      [] op = "recall_context" -> {Dict(b) : b \in RecallBodies}
      [] OTHER ->
            {Dict([success |-> FALSE]), Dict(EmptyDict)}
            \cup (IF room_left THEN {Dict([success |-> TRUE])} ELSE {})

\* httpx refuses to send on a closed client.
Responses(op, closed, room_left) ==
    IF closed THEN {[kind |-> "closed"]} ELSE Answers(op, room_left)

\* The service persisted the record of this exchange.
Persisted(resp) ==
    /\ resp.kind = "json_dict"
    /\ "success" \in DOMAIN resp.body
    /\ resp.body.success

----------------------------------------------------------------------------
(* ConvexClient *)

\* The exception the body of the operation's try block raises on this
\* exchange, "" when it raises none.  recall_context returns response.json()
\* as it is; the other three call .get on it, which a list does not have.
TryBodyRaises(op, resp) ==
    CASE resp.kind = "closed" -> "RuntimeError"
      [] resp.kind = "timeout" -> "httpx.TimeoutException"
      [] resp.kind = "connect_error" -> "httpx.ConnectError"
      [] resp.kind = "http_500" -> "httpx.HTTPStatusError"
      [] resp.kind = "bad_json" -> "json.JSONDecodeError"
      [] resp.kind = "json_list" ->
            IF op = "recall_context" THEN "" ELSE "AttributeError"
      [] OTHER -> ""

\* `except Exception`: every exception above derives from Exception.
ExceptException(exc) == exc # ""

\* Python dict.get(key, default)
DictGet(d, key, default) == IF key \in DOMAIN d THEN d[key] ELSE default

EmptyRecall == [memories |-> <<>>, facts |-> <<>>,
                propertyInteractions |-> <<>>, suburbPreferences |-> <<>>]

\* The value of a JSON body as Python sees it.
PyDict(d) == [type |-> "dict", d |-> d]
PyList == [type |-> "list"]

\* What each operation hands back: raised is the exception that escapes it
\* ("" when none), value what it returns.
ensure_memory_space(resp) ==
    LET exc == TryBodyRaises("ensure_memory_space", resp) IN
    IF exc # ""
    THEN [raised |-> IF ExceptException(exc) THEN "" ELSE exc, value |-> NoneStr]
    ELSE [raised |-> "", value |-> DictGet(resp.body, "memorySpaceId", NoneStr)]

recall_context(resp) ==
    LET exc == TryBodyRaises("recall_context", resp) IN
    IF exc # ""
    THEN [raised |-> IF ExceptException(exc) THEN "" ELSE exc,
          value |-> PyDict(EmptyRecall)]
    ELSE [raised |-> "",
          value |-> IF resp.kind = "json_list" THEN PyList ELSE PyDict(resp.body)]

remember_conversation(resp) ==
    LET exc == TryBodyRaises("remember_conversation", resp) IN
    IF exc # ""
    THEN [raised |-> IF ExceptException(exc) THEN "" ELSE exc, value |-> FALSE]
    ELSE [raised |-> "", value |-> DictGet(resp.body, "success", FALSE)]

store_preference(resp) ==
    LET exc == TryBodyRaises("store_preference", resp) IN
    IF exc # ""
    THEN [raised |-> IF ExceptException(exc) THEN "" ELSE exc, value |-> FALSE]
    ELSE [raised |-> "", value |-> DictGet(resp.body, "success", FALSE)]

\* The record of one Memory Client call, as the handlers log it in `calls`.
Call(op, uid, request, resp, out) ==
    [op |-> op, user_id |-> uid, request |-> request, resp |-> resp,
     out |-> out]

----------------------------------------------------------------------------
(* Session bootstrap: haus_agent *)

\* The jobs of the model: ctx.job.metadata and ctx.room.name.
Jobs == {[metadata |-> "{\"userId\": \"u1\"}", room |-> "room42"],
         [metadata |-> "", room |-> "room42"],
         [metadata |-> "{}", room |-> ""],
         [metadata |-> "{\"userId\": \"\"}", room |-> "room42"],
         [metadata |-> "not json", room |-> "room42"],
         [metadata |-> "[]", room |-> "room42"]}

\* Line 493 raises: json.loads on text that is not JSON (JSONDecodeError), or
\* line 494 does: .get on a value that is not an object (AttributeError).
MetadataRaises(text) == text \in {"not json", "[]"}

\* json.loads(ctx.job.metadata) if ctx.job.metadata else {}
JobMetadata(text) ==
    CASE text = "" -> EmptyDict
      [] text = "{}" -> EmptyDict
      [] text = "{\"userId\": \"u1\"}" -> [userId |-> "u1"]
      [] text = "{\"userId\": \"\"}" -> [userId |-> ""]

\* `a or b` on str | None
PyOrStr(a, b) == IF a = NoneStr \/ a = "" THEN b ELSE a

ResolveRoomFirst(text, room_name) ==
    PyOrStr(PyOrStr(room_name, DictGet(JobMetadata(text), "userId", NoneStr)),
            "anonymous")

\* job_metadata.get("userId") or ctx.room.name or "anonymous"
ResolveUserId(text, room_name) ==
    PyOrStr(PyOrStr(DictGet(JobMetadata(text), "userId", NoneStr), room_name),
            "anonymous")

NoContext == [type |-> "none"]
NoArgs == [none |-> TRUE]

Init ==
    /\ \E job \in Jobs : metadata = job.metadata /\ room = job.room
    /\ pc = "start"
    /\ raising = FALSE
    /\ user_id = NoneStr
    /\ memory_space_id = NoneStr
    /\ closeCount = 0
    /\ live = "none"
    /\ handler = "none"
    /\ hstate = "idle"
    /\ args = NoArgs
    /\ results = <<>>
    /\ widx = 0
    /\ calls = <<>>
    /\ ret = <<>>
    /\ context = NoContext
    /\ turn_ctx = <<>>
    /\ stored = 0

ClientClosed == closeCount > 0

RoomLeft == stored < MaxStored

\* Lines 493-494 raise, before the try block and before there is a client:
\* the exception leaves haus_agent.
ResolveIdentityRaises ==
    /\ pc = "start"
    /\ MetadataRaises(metadata)
    /\ pc' = "aborted"
    /\ raising' = TRUE
    /\ UNCHANGED <<metadata, room, user_id, memory_space_id, closeCount, live,
                   handlerVars, stored>>

\* Lines 493-499: resolve the identity, construct the ConvexClient.
ResolveIdentity ==
    /\ pc = "start"
    /\ ~MetadataRaises(metadata)
    /\ user_id' = ResolveUserId(metadata, room)
    /\ pc' = "ensure"
    /\ UNCHANGED <<metadata, room, raising, memory_space_id, closeCount, live,
                   handlerVars, stored>>

\* Line 503, inside the try.
EnsureMemorySpace ==
    /\ pc = "ensure"
    /\ \E resp \in Responses("ensure_memory_space", ClientClosed, RoomLeft) :
          LET out == ensure_memory_space(resp) IN
          /\ calls' = <<Call("ensure_memory_space", user_id,
                             [userId |-> user_id], resp, out)>>
          /\ IF out.raised # ""
             THEN /\ pc' = "except"
                  /\ UNCHANGED memory_space_id
             ELSE /\ pc' = "session_start"
                  /\ memory_space_id' = out.value
    /\ UNCHANGED <<metadata, room, raising, user_id, closeCount, live, handler,
                   hstate, args, results, widx, ret, context, turn_ctx, stored>>

\* Lines 510-547: the agent is built and session.start attaches it to the
\* room; from here on the pipeline calls the agent's handlers.
SessionStart ==
    /\ pc = "session_start"
    /\ pc' = "greet"
    /\ live' = "live"
    /\ UNCHANGED <<metadata, room, raising, user_id, memory_space_id,
                   closeCount, handlerVars, stored>>

\* Lines 510-547 raise (model load, room connection).
SessionStartRaises ==
    /\ pc = "session_start"
    /\ pc' = "except"
    /\ UNCHANGED <<metadata, room, raising, user_id, memory_space_id,
                   closeCount, live, handlerVars, stored>>

\* Lines 550-555: the greeting was generated, "Session started successfully".
\* The try block ends here and control falls into the finally clause.
GenerateReply ==
    /\ pc = "greet"
    /\ pc' = "finally"
    /\ UNCHANGED <<metadata, room, raising, user_id, memory_space_id,
                   closeCount, live, handlerVars, stored>>

GenerateReplyRaises ==
    /\ pc = "greet"
    /\ pc' = "except"
    /\ UNCHANGED <<metadata, room, raising, user_id, memory_space_id,
                   closeCount, live, handlerVars, stored>>

\* Lines 557-559: log and re-raise.
ExceptReraise ==
    /\ pc = "except"
    /\ raising' = TRUE
    /\ pc' = "finally"
    /\ UNCHANGED <<metadata, room, user_id, memory_space_id, closeCount, live,
                   handlerVars, stored>>

\* Lines 560-561: await convex.close(), then haus_agent is left.
FinallyClose ==
    /\ pc = "finally"
    /\ closeCount' = closeCount + 1
    /\ pc' = IF raising THEN "raised" ELSE "returned"
    /\ UNCHANGED <<metadata, room, raising, user_id, memory_space_id, live,
                   handlerVars, stored>>

\* The caller hangs up or the platform tears the call down.
EndCall ==
    /\ live = "live"
    /\ live' = "ended"
    /\ UNCHANGED <<metadata, room, bootVars, handlerVars, stored>>

\* The pipeline runs one handler of the agent at a time, while the call lasts.
CanEnterHandler == live = "live" /\ hstate # "running"

----------------------------------------------------------------------------
(* Conversation context mediator: HausAgent.on_user_turn_completed *)

Queries == {"", "anything in Bondi?"}

Message(content) == [role |-> "assistant", content |-> content]

SuburbSliceUncapped(prefs) == prefs

\* context["suburbPreferences"][:5]
SuburbSlice(prefs) == Take(prefs, TopSuburbs)

FactSliceUncapped(facts) == facts

\* context["facts"][:5]
FactSlice(facts) == Take(facts, TopFacts)

\* context["propertyInteractions"][:3]
InteractionSlice(interactions) == Take(interactions, TopInteractions)

\* f"{p['suburbName']} (score: {p['preferenceScore']})"
SuburbEntry(p) ==
    <<p.suburbName, " (score: ", ToString(p.preferenceScore), ")">>

SuburbMessages(d) ==
    LET all == DictGet(d, "suburbPreferences", <<>>)
        prefs == SuburbSlice(all)
    IN  IF Len(all) = 0 THEN <<>>
        ELSE <<Message(<<"User's suburb preferences: ">>
                       \o JoinTokens([i \in 1..Len(prefs) |-> SuburbEntry(prefs[i])],
                                     ", "))>>

FactMessages(d) ==
    LET all == DictGet(d, "facts", <<>>)
        facts == FactSlice(all)
    IN  IF Len(all) = 0 THEN <<>>
        ELSE [i \in 1..Len(facts) |->
                Message(<<"Remembered: ", facts[i].fact, " (confidence: ",
                          ToString(facts[i].confidence), "%)">>)]

InteractionMessages(d) ==
    LET all == DictGet(d, "propertyInteractions", <<>>)
        interactions == InteractionSlice(all)
    IN  IF Len(all) = 0 THEN <<>>
        ELSE [i \in 1..Len(interactions) |->
                Message(<<"User recently viewed: ", interactions[i].propertyId,
                          " (", interactions[i].interactionType, ")">>)]

\* One completed user turn.  The handler has one suspension point, the
\* recall; what follows it runs without suspending.  A body that is not an
\* object has no .get, and line 260 raises AttributeError.
UserTurn(queries, responses) ==
    /\ CanEnterHandler
    /\ \E query \in queries :
       \E resp \in responses :
          LET out == recall_context(resp)
              request == [userId |-> user_id, query |-> query, limit |-> 10]
          IN
          /\ handler' = "turn"
          /\ args' = [query |-> query]
          /\ calls' = <<Call("recall_context", user_id, request, resp, out)>>
          /\ IF out.raised # ""
             THEN /\ hstate' = "raised"
                  /\ context' = NoContext
                  /\ turn_ctx' = <<>>
             ELSE /\ context' = out.value
                  /\ IF out.value.type = "dict"
                     THEN /\ hstate' = "returned"
                          /\ turn_ctx' = SuburbMessages(out.value.d)
                                         \o FactMessages(out.value.d)
                                         \o InteractionMessages(out.value.d)
                     ELSE /\ hstate' = "raised"
                          /\ turn_ctx' = <<>>
    /\ results' = <<>>
    /\ widx' = 0
    /\ ret' = <<>>
    /\ UNCHANGED <<metadata, room, bootVars, live, stored>>

OnUserTurnCompleted ==
    UserTurn(Queries, Responses("recall_context", ClientClosed, RoomLeft))

----------------------------------------------------------------------------
(* Tool surface: HausAgent.search_properties *)

\* The invocations of the model; an int | None argument is <<>> or <<v>>.
SearchInputs ==
    {[location |-> "Bondi", budget_min |-> <<>>, budget_max |-> <<>>,
      bedrooms |-> <<>>, property_type |-> NoneStr],
     [location |-> "Bondi", budget_min |-> <<>>, budget_max |-> <<0>>,
      bedrooms |-> <<4>>, property_type |-> "townhouse"],
     [location |-> "Manly", budget_min |-> <<500000>>, budget_max |-> <<900000>>,
      bedrooms |-> <<>>, property_type |-> NoneStr],
     [location |-> "Manly", budget_min |-> <<>>, budget_max |-> <<1234567>>,
      bedrooms |-> <<4>>, property_type |-> "townhouse"]}

SecondPriceNoDiscount(budget_max) == PyOr(budget_max, FallbackPriceSecond)

\* (budget_max or 1000000) - 200000
SecondPrice(budget_max) == PyOr(budget_max, FallbackPriceSecond) - SecondDiscount

\* Lines 314-331.
SynthesizeResults(a) ==
    <<[id |-> "prop-001",
       address |-> <<ToString(PyOr(a.bedrooms, 3)), " Bedroom ",
                     PyOrStr(a.property_type, "House"), " in ", a.location>>,
       price |-> PyOr(a.budget_max, FallbackPriceFirst),
       bedrooms |-> PyOr(a.bedrooms, 3),
       bathrooms |-> 2,
       description |-> "Modern property with great natural light"],
      [id |-> "prop-002",
       address |-> <<ToString(PyOr(a.bedrooms, 2)), " Bedroom Apartment in ",
                     a.location>>,
       price |-> SecondPrice(a.budget_max),
       bedrooms |-> PyOr(a.bedrooms, 2),
       bathrooms |-> 1,
       description |-> "Recently renovated with new kitchen"]>>

\* Line 343 is the whole return statement: the two f-strings on lines 344 and
\* 345 are expression statements after it, and never run.
SearchSummary(res, location) ==
    <<"Found ", ToString(Len(res)), " properties in ", location, ". ">>

RetryFailedWrite(i, ok) == IF ok THEN i + 1 ELSE i

\* `for prop in results`: the loop moves on whatever the write returned.
NextIteration(i, ok) == i + 1

SearchStart(inputs) ==
    /\ CanEnterHandler
    /\ \E a \in inputs :
          /\ args' = a
          /\ results' = SynthesizeResults(a)
    /\ handler' = "search"
    /\ hstate' = "running"
    /\ widx' = 0
    /\ calls' = <<>>
    /\ ret' = <<>>
    /\ context' = NoContext
    /\ turn_ctx' = <<>>
    /\ UNCHANGED <<metadata, room, bootVars, live, stored>>

SearchProperties == SearchStart(SearchInputs)

\* One iteration of the loop of lines 334-341.
SearchWrite(responses) ==
    /\ handler = "search"
    /\ hstate = "running"
    /\ widx < Len(results)
    /\ \E resp \in responses :
          LET prop == results[widx + 1]
              out == remember_conversation(resp)
              request == [userId |-> user_id,
                          userQuery |-> <<"Search for properties in ",
                                          args.location>>,
                          agentResponse |-> results,
                          propertyId |-> prop.id,
                          propertyContext |-> prop]
          IN
          /\ calls' = Append(calls, Call("remember_conversation", user_id,
                                         request, resp, out))
          /\ stored' = IF Persisted(resp) THEN stored + 1 ELSE stored
          /\ IF out.raised # ""
             THEN /\ hstate' = "raised"
                  /\ UNCHANGED widx
             ELSE /\ hstate' = "running"
                  /\ widx' = NextIteration(widx, out.value)
    /\ UNCHANGED <<metadata, room, bootVars, live, handler, args, results,
                   ret, context, turn_ctx>>

SearchRemember ==
    SearchWrite(Responses("remember_conversation", ClientClosed, RoomLeft))

\* Line 343.
SearchReturn ==
    /\ handler = "search"
    /\ hstate = "running"
    /\ widx >= Len(results)
    /\ ret' = SearchSummary(results, args.location)
    /\ hstate' = "returned"
    /\ UNCHANGED <<metadata, room, bootVars, live, handler, args, results,
                   widx, calls, context, turn_ctx, stored>>

----------------------------------------------------------------------------
(* Tool surface: HausAgent.remember_preference *)

\* The invocations of the model.  A preference text is given as the pieces
\* ", " separates it into.
PreferenceInputs ==
    {[category |-> "suburb", pieces |-> <<"Bondi", "NSW">>],
     [category |-> "suburb", pieces |-> <<"Manly">>],
     [category |-> "price", pieces |-> <<"under 1m">>]}

\* The text of the last entry of the session's chat context, None when the
\* chat context is empty.
LastTexts == {NoneStr, "I like Bondi"}

ConfidenceSwapped(is_positive) ==
    IF is_positive THEN NegativeConfidence ELSE PositiveConfidence

\* confidence = 80 if is_positive else 70
Confidence(is_positive) ==
    IF is_positive THEN PositiveConfidence ELSE NegativeConfidence

\* preference.split(", ") gives the pieces back; the text is their join.
PreferenceText(pieces) ==
    JoinTokens([i \in 1..Len(pieces) |-> <<pieces[i]>>], ", ")

\* Lines 368-379.
PreferenceMetadata(category, pieces, last_text) ==
    IF category = "suburb"
    THEN [mentionedInQuery |-> last_text,
          suburbName |-> pieces[1],
          state |-> IF Len(pieces) > 1 THEN pieces[2] ELSE "NSW",
          reason |-> "User stated this directly"]
    ELSE [mentionedInQuery |-> last_text]

SoftDegradation ==
    <<"I had trouble saving that preference, but I'll keep it in mind for this conversation.">>

ReplyAlwaysConfirms(success, is_positive, pieces) ==
    <<"Got it! I'll remember you ",
      IF is_positive THEN "love" ELSE "prefer to avoid", " ">>
    \o PreferenceText(pieces) \o <<" for future searches.">>

\* Lines 389-393.
PreferenceReply(success, is_positive, pieces) ==
    IF success
    THEN <<"Got it! I'll remember you ",
           IF is_positive THEN "love" ELSE "prefer to avoid", " ">>
         \o PreferenceText(pieces) \o <<" for future searches.">>
    ELSE SoftDegradation

\* One suspension point, the store_preference call.
Preference(inputs, sentiments, last_texts, responses) ==
    /\ CanEnterHandler
    /\ \E input \in inputs, is_positive \in sentiments,
          last_text \in last_texts :
       \E resp \in responses :
          LET category == input.category
              pieces == input.pieces
              out == store_preference(resp)
              request == [userId |-> user_id,
                          category |-> category,
                          preference |-> PreferenceText(pieces),
                          confidence |-> Confidence(is_positive),
                          metadata |-> PreferenceMetadata(category, pieces,
                                                          last_text)]
          IN
          /\ args' = [category |-> category, preference |-> pieces,
                      is_positive |-> is_positive]
          /\ calls' = <<Call("store_preference", user_id, request, resp, out)>>
          /\ stored' = IF Persisted(resp) THEN stored + 1 ELSE stored
          /\ IF out.raised # ""
             THEN /\ hstate' = "raised"
                  /\ ret' = <<>>
             ELSE /\ hstate' = "returned"
                  /\ ret' = PreferenceReply(out.value, is_positive, pieces)
    /\ handler' = "pref"
    /\ results' = <<>>
    /\ widx' = 0
    /\ context' = NoContext
    /\ turn_ctx' = <<>>
    /\ UNCHANGED <<metadata, room, bootVars, live>>

RememberPreference ==
    Preference(PreferenceInputs, BOOLEAN, LastTexts,
               Responses("store_preference", ClientClosed, RoomLeft))

----------------------------------------------------------------------------
(* Tool surface: HausAgent.get_property_details *)

PropertyIds == {"prop-001", "prop-002", "unknown-id", ""}

\* Lines 411-436.
Properties ==
    [id \in {"prop-001", "prop-002"} |->
        IF id = "prop-001"
        THEN [id |-> "prop-001",
              address |-> "42 Ocean Street, Bondi Beach NSW 2026",
              price |-> 1500000, bedrooms |-> 3, bathrooms |-> 2,
              parking |-> 1, landsize |-> "450m2", year |-> 2020,
              features |-> <<"Ocean views", "Modern kitchen",
                             "Air conditioning", "Close to beach">>,
              description |-> "Stunning modern home with breathtaking ocean views. Recently renovated with premium finishes throughout."]
        ELSE [id |-> "prop-002",
              address |-> "15 Beach Road, Bondi Beach NSW 2026",
              price |-> 800000, bedrooms |-> 2, bathrooms |-> 1,
              parking |-> 1, landsize |-> "120m2", year |-> 2019,
              features |-> <<"New kitchen", "Floorboards", "North facing">>,
              description |-> "Chic apartment in prime location, moments from the beach."]]

LookupOrFirst(property_id) ==
    IF property_id \in DOMAIN Properties
    THEN <<Properties[property_id]>>
    ELSE <<Properties["prop-001"]>>

\* properties.get(property_id): <<>> is None
Lookup(property_id) ==
    IF property_id \in DOMAIN Properties
    THEN <<Properties[property_id]>>
    ELSE <<>>

\* Line 440.
Apology(property_id) ==
    <<"Sorry, I couldn't find details for property ", property_id, ".">>

\* Lines 451-458.
Details(prop) ==
    <<prop.address, "\nPrice: $", FormatThousands(prop.price), "\n",
      ToString(prop.bedrooms), " bed, ", ToString(prop.bathrooms), " bath, ",
      ToString(prop.parking), " parking\nBuilt: ", ToString(prop.year),
      "\n\nFeatures: ">>
    \o JoinTokens([i \in 1..Len(Take(prop.features, 3)) |-> <<prop.features[i]>>],
                  ", ")
    \o <<"\n\n", prop.description>>

\* One suspension point at most, the remember_conversation call.
PropertyDetails(ids, responses) ==
    /\ CanEnterHandler
    /\ \E property_id \in ids :
          LET found == Lookup(property_id) IN
          /\ args' = [property_id |-> property_id]
          /\ IF found = <<>>
             THEN /\ calls' = <<>>
                  /\ ret' = Apology(property_id)
                  /\ hstate' = "returned"
                  /\ UNCHANGED stored
             ELSE \E resp \in responses :
                    LET prop == found[1]
                        out == remember_conversation(resp)
                        request == [userId |-> user_id,
                                    userQuery |-> <<"Get details for ",
                                                    property_id>>,
                                    agentResponse |-> prop,
                                    propertyId |-> property_id,
                                    propertyContext |-> prop]
                    IN
                    /\ calls' = <<Call("remember_conversation", user_id,
                                       request, resp, out)>>
                    /\ stored' = IF Persisted(resp) THEN stored + 1 ELSE stored
                    /\ IF out.raised # ""
                       THEN /\ hstate' = "raised"
                            /\ ret' = <<>>
                       ELSE /\ hstate' = "returned"
                            /\ ret' = Details(prop)
    /\ handler' = "details"
    /\ results' = <<>>
    /\ widx' = 0
    /\ context' = NoContext
    /\ turn_ctx' = <<>>
    /\ UNCHANGED <<metadata, room, bootVars, live>>

GetPropertyDetails ==
    PropertyDetails(PropertyIds,
                    Responses("remember_conversation", ClientClosed, RoomLeft))

----------------------------------------------------------------------------

\* haus_agent and the end of the call.
Bootstrap ==
    \/ ResolveIdentity
    \/ ResolveIdentityRaises
    \/ EnsureMemorySpace
    \/ SessionStart
    \/ SessionStartRaises
    \/ GenerateReply
    \/ GenerateReplyRaises
    \/ ExceptReraise
    \/ FinallyClose
    \/ EndCall

SearchTool == SearchProperties \/ SearchRemember \/ SearchReturn

Next ==
    \/ Bootstrap
    \/ OnUserTurnCompleted
    \/ SearchTool
    \/ RememberPreference
    \/ GetPropertyDetails

\* The whole call.
Spec == Init /\ [][Next]_vars

\* Calls in which the pipeline completes user turns and invokes no tool.
NextMediator == Bootstrap \/ OnUserTurnCompleted
SpecMediator == Init /\ [][NextMediator]_vars

\* Calls in which the model invokes the search and detail tools.
NextTools == Bootstrap \/ SearchTool \/ GetPropertyDetails
SpecTools == Init /\ [][NextTools]_vars

\* Calls in which the model invokes remember_preference.
NextPreference == Bootstrap \/ RememberPreference
SpecPreference == Init /\ [][NextPreference]_vars

\* Calls in which every handler is entered, each on one invocation and with
\* the service answering in one of three ways.
IdentityAnswers ==
    {[kind |-> "closed"], [kind |-> "http_500"], Dict([success |-> TRUE]),
     Dict(RecallBody(1, 1, 1))}

IdentityTurn ==
    UserTurn({""}, Responses("recall_context", ClientClosed, RoomLeft)
                   \cap IdentityAnswers)

IdentitySearch == SearchStart({a \in SearchInputs : a.budget_max = <<>>})

IdentitySearchRemember ==
    SearchWrite(Responses("remember_conversation", ClientClosed, RoomLeft)
                \cap IdentityAnswers)

IdentityPreference ==
    Preference({i \in PreferenceInputs : i.category = "price"}, BOOLEAN,
               {NoneStr},
               Responses("store_preference", ClientClosed, RoomLeft)
               \cap IdentityAnswers)

IdentityDetails ==
    PropertyDetails({"prop-001", "unknown-id"},
                    Responses("remember_conversation", ClientClosed, RoomLeft)
                    \cap IdentityAnswers)

NextIdentity ==
    \/ Bootstrap
    \/ IdentityTurn
    \/ IdentitySearch
    \/ IdentitySearchRemember
    \/ SearchReturn
    \/ IdentityPreference
    \/ IdentityDetails

SpecIdentity == Init /\ [][NextIdentity]_vars

----------------------------------------------------------------------------
(* Properties *)

Min(a, b) == IF a < b THEN a ELSE b

\* The string holds the piece t.
Contains(tokens, t) == \E i \in 1..Len(tokens) : tokens[i] = t

TurnReturned == handler = "turn" /\ hstate = "returned"

\* The messages of turn_ctx that open with the given literal.
MessagesOpening(literal) ==
    SelectSeq(turn_ctx, LAMBDA m : m.content[1] = literal)

\* What the service returned under a key of the recall result.
Returned(key) == DictGet(context.d, key, <<>>)

\* C1: whatever way the backend fails (transport error, timeout, non-2xx
\* status, malformed body), no Memory Client operation lets an exception out
\* and each returns its safe default: ensure_memory_space None,
\* recall_context four empty sequences, remember_conversation and
\* store_preference false.
C1_SafeDefaults ==
    \A i \in 1..Len(calls) :
        LET c == calls[i] IN
        c.resp.kind \in FailureKinds =>
            /\ c.out.raised = ""
            /\ CASE c.op = "ensure_memory_space" -> c.out.value = NoneStr
                 [] c.op = "recall_context" ->
                        /\ c.out.value.type = "dict"
                        /\ DOMAIN c.out.value.d =
                             {"memories", "facts", "propertyInteractions",
                              "suburbPreferences"}
                        /\ \A k \in DOMAIN c.out.value.d :
                              c.out.value.d[k] = <<>>
                 [] OTHER -> c.out.value = FALSE

\* C2: search_properties and get_property_details on a known id return
\* their string whatever the writes came to; search_properties makes one
\* write attempt per candidate, in order, two in all, the second also after
\* a failed first; get_property_details makes one; none is made again.
C2_WritesAtMostOnce ==
    /\ handler = "search" =>
          /\ hstate # "raised"
          /\ Len(calls) = widx
          /\ widx <= Len(results)
          /\ \A i \in 1..Len(calls) :
                /\ calls[i].op = "remember_conversation"
                /\ calls[i].request.propertyId = results[i].id
          /\ (hstate = "running" /\ widx < Len(results)) => ENABLED SearchRemember
          /\ (hstate = "running" /\ widx = Len(results)) => ENABLED SearchReturn
          /\ hstate = "returned" => Len(calls) = 2 /\ Len(ret) > 0
    /\ (handler = "details" /\ args.property_id \in {"prop-001", "prop-002"}) =>
          /\ hstate = "returned"
          /\ Len(ret) > 0
          /\ Len(calls) = 1
          /\ calls[1].op = "remember_conversation"
          /\ calls[1].request.propertyId = args.property_id

\* A search that returned its string after both of its writes failed.
C2_Witness ==
    /\ handler = "search"
    /\ hstate = "returned"
    /\ Len(calls) = 2
    /\ calls[1].resp.kind = "http_500"
    /\ calls[2].resp.kind = "timeout"
    /\ Len(ret) > 0

\* C3: the client's connection is closed once, on every path out of
\* haus_agent, and, unless setup raised, not while the call is live.
C3_ReleasedAtCallEnd ==
    /\ closeCount <= 1
    /\ pc \in {"returned", "raised"} => closeCount = 1
    /\ (closeCount > 0 /\ ~raising) => live # "live"

\* C4: a completed turn whose recall result has n suburb preferences adds
\* no suburb message when n = 0 and otherwise one, listing the first
\* min(n, 5) of them in the service's order.
C4_SuburbMessage ==
    TurnReturned =>
        LET prefs == Returned("suburbPreferences")
            n == Len(prefs)
            k == Min(n, 5)
            msgs == MessagesOpening("User's suburb preferences: ")
        IN  IF n = 0 THEN Len(msgs) = 0
            ELSE /\ Len(msgs) = 1
                 /\ msgs[1].role = "assistant"
                 /\ Len(msgs[1].content) = 5 * k
                 /\ \A i \in 1..k :
                       /\ msgs[1].content[5 * i - 3] = prefs[i].suburbName
                       /\ msgs[1].content[5 * i - 1] =
                             ToString(prefs[i].preferenceScore)

\* A turn whose recall result held more than five suburb preferences.
C4_Witness ==
    /\ TurnReturned
    /\ Len(Returned("suburbPreferences")) > 5
    /\ Len(MessagesOpening("User's suburb preferences: ")) = 1

\* C5: a completed turn whose recall result has n facts adds min(n, 5) fact
\* messages, the i-th for the i-th fact, each of role assistant and holding
\* the fact's text and confidence.
C5_FactMessages ==
    TurnReturned =>
        LET facts == Returned("facts")
            msgs == MessagesOpening("Remembered: ")
        IN  /\ Len(msgs) = Min(Len(facts), 5)
            /\ \A i \in 1..Len(msgs) :
                  /\ msgs[i].role = "assistant"
                  /\ msgs[i].content[2] = facts[i].fact
                  /\ msgs[i].content[4] = ToString(facts[i].confidence)

\* A turn whose recall result held more than five facts.
C5_Witness ==
    /\ TurnReturned
    /\ Len(Returned("facts")) > 5
    /\ Len(MessagesOpening("Remembered: ")) = 5

\* C6: the string search_properties returns names the number of candidates,
\* the top match's bedroom count and its price with thousands grouping, and
\* invites a follow-up.
C6_SummaryNamesTopMatch ==
    (handler = "search" /\ hstate = "returned") =>
        /\ Contains(ret, ToString(Len(results)))
        /\ Contains(ret, ToString(results[1].bedrooms))
        /\ Contains(ret, FormatThousands(results[1].price))
        /\ Contains(ret, "Would you like more details about any of these?")

\* C7 as stated: two candidates, the second priced 200,000 below the first,
\* also when budget_max is absent or zero.
C7_SecondIs200kBelow ==
    handler = "search" =>
        /\ Len(results) = 2
        /\ results[2].price = results[1].price - 200000

\* C7 as amended: two candidates; with a budget_max that is present and not
\* zero the first is priced at it and the second 200,000 below; with
\* budget_max absent or zero they are priced 1,500,000 and 800,000.
C7_SecondPrice ==
    handler = "search" =>
        /\ Len(results) = 2
        /\ IF args.budget_max # <<>> /\ args.budget_max[1] # 0
           THEN /\ results[1].price = args.budget_max[1]
                /\ results[2].price = results[1].price - 200000
           ELSE /\ results[1].price = 1500000
                /\ results[2].price = 800000

\* A search without budget_max that has returned.
C7_Witness ==
    /\ handler = "search"
    /\ hstate = "returned"
    /\ args.budget_max = <<>>
    /\ results[1].price - results[2].price = 700000

\* C8: get_property_details on an id that is not in the table returns the
\* apology with that id, raises nothing, calls remember_conversation not at
\* all and leaves the remote memory as it was.
C8_UnknownId ==
    /\ [](  (handler = "details" /\ args.property_id \notin {"prop-001", "prop-002"})
            => /\ hstate = "returned"
               /\ Contains(ret, "Sorry, I couldn't find details for property ")
               /\ Contains(ret, args.property_id)
               /\ Len(calls) = 0)
    /\ [][  (handler' = "details" /\ args'.property_id \notin {"prop-001", "prop-002"})
            => stored' = stored]_vars

\* A lookup of an unknown id made while the remote memory holds a record.
C8_Witness ==
    /\ handler = "details"
    /\ args.property_id = "unknown-id"
    /\ hstate = "returned"
    /\ stored > 0

\* The exchange did not end in the service reporting success.
StoreFailed(resp) ==
    \/ resp.kind # "json_dict"
    \/ "success" \notin DOMAIN resp.body
    \/ resp.body.success = FALSE

\* C9: when store_preference fails (backend error, timeout, non-2xx, success
\* flag false or missing) remember_preference raises nothing and returns the
\* soft-degradation string; it confirms only when the store succeeded.
C9_SoftDegradation ==
    handler = "pref" =>
        /\ hstate = "returned"
        /\ Len(calls) = 1
        /\ StoreFailed(calls[1].resp) =>
              ret = <<"I had trouble saving that preference, but I'll keep it in mind for this conversation.">>
        /\ Contains(ret, "Got it! I'll remember you ") =>
              ~StoreFailed(calls[1].resp)

\* remember_preference after the backend answered 500.
C9_Witness ==
    /\ handler = "pref"
    /\ hstate = "returned"
    /\ calls[1].resp.kind = "http_500"
    /\ Len(ret) = 1

\* C10 as stated: is_positive=false always gives confidence 70 and an
\* "avoid" framed string, is_positive=true confidence 80 and a "love" framed
\* string.
C10_SentimentAlways ==
    (handler = "pref" /\ hstate = "returned") =>
        IF args.is_positive
        THEN /\ calls[1].request.confidence = 80
             /\ Contains(ret, "love")
        ELSE /\ calls[1].request.confidence = 70
             /\ Contains(ret, "prefer to avoid")

\* C10 as amended: the confidence is 80 or 70 by sentiment in every
\* store_preference call; the string is "love" or "avoid" framed by
\* sentiment when store_preference reported success, and otherwise carries
\* neither framing.
C10_Sentiment ==
    (handler = "pref" /\ hstate = "returned") =>
        /\ calls[1].request.confidence = IF args.is_positive THEN 80 ELSE 70
        /\ IF ~StoreFailed(calls[1].resp)
           THEN /\ Contains(ret, "love") <=> args.is_positive
                /\ Contains(ret, "prefer to avoid") <=> ~args.is_positive
           ELSE ~Contains(ret, "love") /\ ~Contains(ret, "prefer to avoid")

\* A dislike that was stored.
C10_Witness ==
    /\ handler = "pref"
    /\ hstate = "returned"
    /\ ~args.is_positive
    /\ ~StoreFailed(calls[1].resp)
    /\ calls[1].request.confidence = 70
    /\ Contains(ret, "prefer to avoid")

\* The session's identity is id: user_id is unset or id, it is id once
\* haus_agent is past line 494, the first Memory Client call is
\* ensure_memory_space, no handler runs before it, and every Memory Client
\* call carries id.  A job whose metadata does not parse to an object leaves
\* haus_agent with no identity and no call.
SessionIdentityIs(id) ==
    /\ user_id \in {NoneStr, id}
    /\ pc \notin {"start", "aborted"} => user_id = id
    /\ pc \in {"start", "aborted"} => (user_id = NoneStr /\ Len(calls) = 0)
    /\ handler # "none" => pc \notin {"start", "ensure", "aborted"}
    /\ (handler = "none" /\ Len(calls) > 0) =>
          (Len(calls) = 1 /\ calls[1].op = "ensure_memory_space")
    /\ \A i \in 1..Len(calls) :
          /\ calls[i].user_id = id
          /\ calls[i].request.userId = id

====
